---- MODULE Spec2Model ----
(***************************************************************************)
(* A model of libmamba/src/core/util_os.cpp: the OS-introspection layer of *)
(* mamba (self-executable path, elevation, long-path registry switch, OS   *)
(* version detection and the console codepage init/reset pair).            *)
(*                                                                         *)
(* One calling thread issues the API calls.  A call that the code performs *)
(* without waiting on anything is one action; the calls that loop or block *)
(* (get_self_exe_path, run_as_admin, enable_long_paths_support) are split  *)
(* at the points where the code queries the OS again or waits.             *)
(* Strings are TLA+ strings, read with Len and SubSeq.                     *)
(***************************************************************************)
EXTENDS Integers, Sequences, FiniteSets, TLC

(***************************************************************************)
(* Program constants.                                                      *)
(***************************************************************************)
CP_UTF8 == 65001
MAX_PATH == 260
PATH_MAX == 1024
MinMajor == 10
MinBuild == 14352

(***************************************************************************)
(* Bounds of the model.                                                    *)
(***************************************************************************)
\* The longest executable path the OS is asked to report, in characters.
MaxPathLen == 2100

(***************************************************************************)
(* Characters and the string helpers the code calls.                       *)
(***************************************************************************)
Char(s, i) == SubSeq(s, i, i)

Digits == {"0", "1", "2", "3", "4", "5", "6", "7", "8", "9"}

Letters ==
    {"a", "b", "c", "d", "e", "f", "g", "h", "i", "j", "k", "l", "m",
     "n", "o", "p", "q", "r", "s", "t", "u", "v", "w", "x", "y", "z",
     "A", "B", "C", "D", "E", "F", "G", "H", "I", "J", "K", "L", "M",
     "N", "O", "P", "Q", "R", "S", "T", "U", "V", "W", "X", "Y", "Z"}

\* \d, \w and "." of an ECMAScript std::regex ("." matches no line break).
IsDigit(c) == c \in Digits
IsWordChar(c) == c \in Digits \cup Letters \cup {"_"}
IsRegexDot(c) == c \notin {"\n", "\r"}

IsSpace(c) == c \in {" ", "\t", "\n", "\r", "\f"}

\* strip(s): s without its leading and trailing whitespace.
strip(s) ==
    LET n == Len(s)
        Solid == {i \in 1..n : ~IsSpace(Char(s, i))}
    IN  IF Solid = {} THEN ""
        ELSE LET lo == CHOOSE i \in Solid : \A j \in Solid : i <= j
                 hi == CHOOSE i \in Solid : \A j \in Solid : j <= i
             IN  SubSeq(s, lo, hi)

\* split(s, sep) for a one-character separator: every piece between two
\* separators, the empty ones included; split("", sep) is <<"">>.
RECURSIVE split(_, _)
split(s, sep) ==
    LET n == Len(s)
        Hits == {i \in 1..n : Char(s, i) = sep}
    IN  IF Hits = {} THEN <<s>>
        ELSE LET i == CHOOSE h \in Hits : \A k \in Hits : h <= k
             IN  <<SubSeq(s, 1, i - 1)>> \o split(SubSeq(s, i + 1, n), sep)

\* concat(a, ".", b, ".", c)
concat(a, b, c) == a \o "." \o b \o "." \o c

DigitVal(c) ==
    CASE c = "0" -> 0 [] c = "1" -> 1 [] c = "2" -> 2 [] c = "3" -> 3
      [] c = "4" -> 4 [] c = "5" -> 5 [] c = "6" -> 6 [] c = "7" -> 7
      [] c = "8" -> 8 [] c = "9" -> 9

\* std::stoull(tok): throws std::invalid_argument when tok does not start
\* with a digit, else the value of its longest prefix of digits.  (Leading
\* whitespace or a sign, and values beyond 64 bits, are not among the
\* inputs of the model.)
stoull_throws(tok) == tok = "" \/ ~IsDigit(Char(tok, 1))

RECURSIVE stoull_from(_, _, _)
stoull_from(tok, i, acc) ==
    IF i > Len(tok) \/ ~IsDigit(Char(tok, i)) THEN acc
    ELSE stoull_from(tok, i + 1, acc * 10 + DigitVal(Char(tok, i)))

stoull(tok) == stoull_from(tok, 1, 0)

(***************************************************************************)
(* windows_version(): the regex over the stripped output of "ver".         *)
(*   (?:([\w ]+) ([\w.]+) .*\[.* ([\d.]+)\])                               *)
(* regex_match is a full match: the output must decompose into             *)
(*   g1 " " g2 " " any "[" any " " g3 "]".                                 *)
(* g3 holds neither a space nor "]", so it is the text between the last    *)
(* space and the closing bracket whatever the backtracking order.          *)
(***************************************************************************)
AllIn(s, lo, hi, P(_)) == \A i \in lo..hi : P(Char(s, i))

IsG1Char(c) == IsWordChar(c) \/ c = " "
IsG2Char(c) == IsWordChar(c) \/ c = "."
IsG3Char(c) == IsDigit(c) \/ c = "."

ver_output_regex_match(s) ==
    LET n == Len(s)
    IN  /\ n >= 8
        /\ Char(s, n) = "]"
        /\ \E p1 \in 2..n :
              /\ Char(s, p1) = " "
              /\ AllIn(s, 1, p1 - 1, IsG1Char)
              /\ \E p2 \in (p1 + 2)..n :
                    /\ Char(s, p2) = " "
                    /\ AllIn(s, p1 + 1, p2 - 1, IsG2Char)
                    /\ \E p3 \in (p2 + 1)..n :
                          /\ Char(s, p3) = "["
                          /\ AllIn(s, p2 + 1, p3 - 1, IsRegexDot)
                          /\ \E p4 \in (p3 + 1)..(n - 2) :
                                /\ Char(s, p4) = " "
                                /\ AllIn(s, p3 + 1, p4 - 1, IsRegexDot)
                                /\ AllIn(s, p4 + 1, n - 1, IsG3Char)

\* rmatch[3] of a matching output.
ver_output_group3(s) ==
    LET n == Len(s)
        p4 == CHOOSE p \in 1..(n - 2) :
                  Char(s, p) = " " /\ AllIn(s, p + 1, n - 1, IsG3Char)
    IN  SubSeq(s, p4 + 1, n - 1)

\* version_els[i]: an index past the end of the vector is undefined
\* behaviour; ub is what the build then reads.
version_el(els, i, ub) == IF i <= Len(els) THEN els[i] ELSE ub

(***************************************************************************)
(* linux_version(): regex_search of ([0-9]+\.[0-9]+\.[0-9]+)-.* in the     *)
(* raw output of "uname -r": the leftmost place where three runs of digits *)
(* joined by dots are followed by a hyphen.                                *)
(***************************************************************************)
RECURSIVE DigitRunEnd(_, _)
\* The index after the run of digits that starts at i (i itself if none).
DigitRunEnd(s, i) ==
    IF i <= Len(s) /\ IsDigit(Char(s, i)) THEN DigitRunEnd(s, i + 1) ELSE i

\* 0, or the index after the third run when X.Y.Z- starts at i.
LinuxMatchAt(s, i) ==
    LET e1 == DigitRunEnd(s, i)
        e2 == DigitRunEnd(s, e1 + 1)
        e3 == DigitRunEnd(s, e2 + 1)
    IN  IF /\ e1 > i /\ e1 <= Len(s) /\ Char(s, e1) = "."
           /\ e2 > e1 + 1 /\ e2 <= Len(s) /\ Char(s, e2) = "."
           /\ e3 > e2 + 1 /\ e3 <= Len(s) /\ Char(s, e3) = "-"
        THEN e3 ELSE 0

linux_regex_search(s) ==
    LET Starts == {i \in 1..Len(s) : LinuxMatchAt(s, i) > 0}
    IN  IF Starts = {} THEN ""
        ELSE LET i == CHOOSE a \in Starts : \A b \in Starts : a <= b
             IN  SubSeq(s, i, LinuxMatchAt(s, i) - 1)

(***************************************************************************)
(* The inputs the environment can supply.                                  *)
(***************************************************************************)
Platforms == {"win", "mac", "linux"}

\* CONDA_OVERRIDE_WIN / CONDA_OVERRIDE_OSX / CONDA_OVERRIDE_LINUX; "" is unset.
EnvChoices ==
    {[win |-> "", osx |-> "", linux |-> ""],
     [win |-> "10.0.19041", osx |-> "", linux |-> ""],
     [win |-> "6.1", osx |-> "11.2", linux |-> "5.4.0"],
     [win |-> "", osx |-> "11.2", linux |-> "5.4.0"]}

\* What "%COMSPEC% /c ver" can print.
VerOutputs ==
    {"\r\nMicrosoft Windows [Version 10.0.19041.1234]\r\n",
     "Microsoft Windows [Version 10.0.19041]",
     "Microsoft Windows [Version 10.0.14351]",
     "Microsoft Windows [Version 11.0.100]",
     "Microsoft Windows [Version 6.1.7601]",
     "Microsoft Windows [Version 10.0]",
     "Microsoft Windows [Version .0.20000]",
     "Windows 10",
     ""}

\* What reading past the end of version_els can yield: a crash, or
\* whatever string lies there.
UBOutcomes == {"<crash>", "", "junk"}

SwVersOutputs == {"13.4\n", "10.15.7\n"}
UnameOutputs == {"5.15.0-76-generic\n", "4.4.0\n", "Linux 5.4.0-42-generic\n"}

CodePages == {437, 850, CP_UTF8}

utf8_locales == <<"C.UTF-8", "POSIX.UTF-8", "en_US.UTF-8">>

PathLens == {100, MAX_PATH - 1, MAX_PATH, 2 * MAX_PATH, PATH_MAX, MaxPathLen}

(***************************************************************************)
(* State.                                                                  *)
(***************************************************************************)
VARIABLES
    platform,                  \* the build target (_WIN32, __APPLE__, else)
    env,                       \* the override variables
    admin,                     \* IsUserAnAdmin() / euid or egid 0
    consoleCP,                 \* the console input codepage (Windows)
    consoleOutputCP,           \* the console output codepage (Windows)
    init_console_cp,
    init_console_output_cp,
    init_console_initialized,
    locale,                    \* the process locale (POSIX)
    lc_all,                    \* LC_ALL in the environment (POSIX)
    regKey,                    \* the FileSystem control key can be opened
    LongPathsEnabled,          \* {} when the value is absent, else {v}
    pc,                        \* where the calling thread is
    result,                    \* how the most recent call ended
    effects,                   \* the OS calls the current call has issued
    out,                       \* stdout captured from the version command
    ec,                        \* whether running that command failed
    force,                     \* enable_long_paths_support's argument
    win_ver,                   \* its local win_ver
    prev_value,                \* its local prev_value ({} before a read)
    pathLen,                   \* the actual length of the executable's path
    size,                      \* get_self_exe_path's locals
    new_size,
    buffer_size,
    buffer_capacity,
    buffer_len,                \* index of the first NUL in the buffer
    lastCap,                   \* capacity passed to the latest path query
    lastOK,                    \* whether the latest path query succeeded
    childState,                \* the elevated child: none, running, exited
    exitCode,
    helper,                    \* what the child was launched to do
    launchOK,                  \* whether ShellExecuteEx succeeded
    raaCaller,                 \* who called run_as_admin
    raaResult,                 \* what run_as_admin returned
    everInit,                  \* init_console has been called
    before_init,               \* codepages right before the latest init
    before_reset,              \* codepages right before the latest reset
    phase                      \* fresh, inited, restored, disturbed

consoleVars ==
    <<consoleCP, consoleOutputCP, init_console_cp, init_console_output_cp,
      init_console_initialized, everInit, before_init, before_reset, phase>>
posixVars == <<locale, lc_all>>
regVars == <<regKey, LongPathsEnabled>>
elpsVars == <<force, win_ver, prev_value>>
pathVars ==
    <<pathLen, size, new_size, buffer_size, buffer_capacity, buffer_len,
      lastCap, lastOK>>
versionVars == <<out, ec>>
childVars == <<childState, exitCode, helper, launchOK, raaCaller, raaResult>>
fixedVars == <<platform, env, admin>>

vars ==
    <<fixedVars, consoleVars, posixVars, regVars, pc, result, effects,
      versionVars, elpsVars, pathVars, childVars>>

on_win == platform = "win"
on_mac == platform = "mac"
on_linux == platform = "linux"

NoResult ==
    [op |-> "none", outcome |-> "none", str |-> "", flag |-> FALSE, len |-> 0]

Outcome(op, outcome, str, flag, len) ==
    [op |-> op, outcome |-> outcome, str |-> str, flag |-> flag, len |-> len]

ReturnsVoid(op) == Outcome(op, "return", "", FALSE, 0)
ReturnsBool(op, b) == Outcome(op, "return", "", b, 0)
ReturnsPath(op, n) == Outcome(op, "return", "", FALSE, n)
Throws(op) == Outcome(op, "throw", "", FALSE, 0)
Crashes(op) == Outcome(op, "crash", "", FALSE, 0)

\* The locals of the multi-step calls, as they are outside such a call.
IdleElps == force' = FALSE /\ win_ver' = "" /\ prev_value' = {}
IdlePath ==
    /\ pathLen' = 0 /\ size' = 0 /\ new_size' = 0 /\ buffer_size' = 0
    /\ buffer_capacity' = 0 /\ buffer_len' = 0 /\ lastCap' = 0
    /\ lastOK' = FALSE
IdleVersion == out' = "" /\ ec' = FALSE
IdleChild ==
    /\ childState' = "none" /\ exitCode' = 0 /\ helper' = "" /\ launchOK' = FALSE
    /\ raaCaller' = "" /\ raaResult' = "none"
IdleLocals == IdleVersion /\ IdleElps /\ IdlePath /\ IdleChild

Init ==
    /\ platform \in Platforms
    /\ env \in EnvChoices
    /\ admin \in BOOLEAN
    /\ \E cps \in (IF on_win THEN {<<437, 437>>, <<850, 437>>} ELSE {<<0, 0>>}) :
          consoleCP = cps[1] /\ consoleOutputCP = cps[2]
    /\ init_console_cp = 0
    /\ init_console_output_cp = 0
    /\ init_console_initialized = FALSE
    /\ locale = "C"
    /\ lc_all = ""
    /\ regKey \in (IF on_win THEN BOOLEAN ELSE {FALSE})
    /\ LongPathsEnabled \in (IF on_win /\ regKey THEN {{}, {0}, {1}} ELSE {{}})
    /\ pc = "idle"
    /\ result = NoResult
    /\ effects = <<>>
    /\ force = FALSE /\ win_ver = "" /\ prev_value = {}
    /\ pathLen = 0 /\ size = 0 /\ new_size = 0 /\ buffer_size = 0
    /\ buffer_capacity = 0 /\ buffer_len = 0 /\ lastCap = 0 /\ lastOK = FALSE
    /\ out = "" /\ ec = FALSE
    /\ childState = "none" /\ exitCode = 0 /\ helper = "" /\ launchOK = FALSE
    /\ raaCaller = "" /\ raaResult = "none"
    /\ everInit = FALSE
    /\ before_init = <<0, 0>>
    /\ before_reset = <<0, 0>>
    /\ phase = "fresh"

(***************************************************************************)
(* is_admin()                                                              *)
(***************************************************************************)
is_admin == admin

IsAdmin ==
    /\ pc = "idle"
    /\ result' = ReturnsBool("is_admin", is_admin)
    /\ effects' = <<>>
    /\ IdleLocals
    /\ UNCHANGED <<fixedVars, consoleVars, posixVars, regVars, pc>>

(***************************************************************************)
(* init_console() and reset_console()                                      *)
(***************************************************************************)
\* The first candidate locale that setlocale accepts, "" if none.
FirstAccepted(accepted) ==
    LET Hits == {i \in 1..Len(utf8_locales) : utf8_locales[i] \in accepted}
    IN  IF Hits = {} THEN ""
        ELSE utf8_locales[CHOOSE i \in Hits : \A j \in Hits : i <= j]

\* init_console reading the codepages after it has forced them to UTF-8.
init_console_win_late_capture ==
    /\ init_console_cp' = CP_UTF8
    /\ init_console_output_cp' = CP_UTF8
    /\ init_console_initialized' = TRUE
    /\ consoleCP' = CP_UTF8
    /\ consoleOutputCP' = CP_UTF8
    /\ effects' = <<"SetConsoleCP", "SetConsoleOutputCP">>
    /\ UNCHANGED posixVars

init_console_win ==
    /\ init_console_cp' = consoleCP
    /\ init_console_output_cp' = consoleOutputCP
    /\ init_console_initialized' = TRUE
    /\ consoleCP' = CP_UTF8
    /\ consoleOutputCP' = CP_UTF8
    /\ effects' = <<"SetConsoleCP", "SetConsoleOutputCP">>
    /\ UNCHANGED posixVars

init_console_posix ==
    /\ \E accepted \in SUBSET {utf8_locales[i] : i \in 1..Len(utf8_locales)} :
          LET l == FirstAccepted(accepted)
          IN  /\ locale' = (IF l = "" THEN locale ELSE l)
              /\ lc_all' = (IF l = "" THEN lc_all ELSE l)
    /\ effects' = <<>>
    /\ UNCHANGED <<consoleCP, consoleOutputCP, init_console_cp,
                   init_console_output_cp, init_console_initialized>>

InitConsole ==
    /\ pc = "idle"
    /\ IF on_win THEN init_console_win ELSE init_console_posix
    /\ everInit' = TRUE
    /\ before_init' = <<consoleCP, consoleOutputCP>>
    /\ phase' = "inited"
    /\ result' = ReturnsVoid("init_console")
    /\ IdleLocals
    /\ UNCHANGED <<fixedVars, regVars, pc, before_reset>>

\* reset_console without its guard.
reset_console_win_unguarded ==
    /\ consoleCP' = init_console_cp
    /\ consoleOutputCP' = init_console_output_cp
    /\ effects' = <<"SetConsoleCP", "SetConsoleOutputCP">>

reset_console_win ==
    IF init_console_initialized
    THEN /\ consoleCP' = init_console_cp
         /\ consoleOutputCP' = init_console_output_cp
         /\ effects' = <<"SetConsoleCP", "SetConsoleOutputCP">>
    ELSE /\ effects' = <<>>
         /\ UNCHANGED <<consoleCP, consoleOutputCP>>

reset_console_posix ==
    /\ effects' = <<>>
    /\ UNCHANGED <<consoleCP, consoleOutputCP>>

ResetConsole ==
    /\ pc = "idle"
    /\ IF on_win THEN reset_console_win ELSE reset_console_posix
    /\ before_reset' = <<consoleCP, consoleOutputCP>>
    /\ phase' = (IF phase \in {"inited", "restored"} THEN "restored" ELSE phase)
    /\ result' = ReturnsVoid("reset_console")
    /\ IdleLocals
    /\ UNCHANGED <<fixedVars, posixVars, regVars, pc, init_console_cp,
                   init_console_output_cp, init_console_initialized,
                   everInit, before_init>>

\* Something other than this module (chcp, another library) sets both
\* console codepages.
ExternalCodepageChange ==
    /\ on_win
    /\ pc = "idle"
    /\ \E cp \in CodePages :
          /\ <<cp, cp>> # <<consoleCP, consoleOutputCP>>
          /\ consoleCP' = cp
          /\ consoleOutputCP' = cp
    /\ phase' = (IF phase = "fresh" THEN "fresh" ELSE "disturbed")
    /\ result' = NoResult
    /\ effects' = <<>>
    /\ IdleLocals
    /\ UNCHANGED <<fixedVars, posixVars, regVars, pc, init_console_cp,
                   init_console_output_cp, init_console_initialized,
                   everInit, before_init, before_reset>>


(***************************************************************************)
(* windows_version(), macos_version(), linux_version()                     *)
(* Each operator is the function's body for one run of the subprocess:     *)
(* failed is reproc's error code being set, output its captured stdout.    *)
(* The record says how the call ended and whether the subprocess was run.  *)
(***************************************************************************)
VersionResult(outcome, str, ran) ==
    [outcome |-> outcome, str |-> str, ran |-> ran]

\* Lines 219-239: what the captured output of "ver" is turned into.
parse_ver_output(output, ub) ==
    LET xout == strip(output)
    IN  IF ver_output_regex_match(xout)
        THEN LET full_version == ver_output_group3(xout)
                 version_els == split(full_version, ".")
             IN  IF Len(version_els) < 3 /\ ub = "<crash>"
                 THEN VersionResult("crash", "", TRUE)
                 ELSE VersionResult("return",
                          concat(version_el(version_els, 1, ub),
                                 version_el(version_els, 2, ub),
                                 version_el(version_els, 3, ub)),
                          TRUE)
        ELSE VersionResult("return", "0.0.0", TRUE)

\* parse_ver_output over the inputs of the model, computed once.
ParsedVerOutput ==
    [o \in VerOutputs, u \in UBOutcomes |-> parse_ver_output(o, u)]

\* windows_version testing the host OS before the override.
windows_version_os_first(failed, output, ub) ==
    IF ~on_win THEN VersionResult("return", "", FALSE)
    ELSE IF env.win # "" THEN VersionResult("return", env.win, FALSE)
    ELSE IF failed THEN VersionResult("return", "", TRUE)
    ELSE ParsedVerOutput[output, ub]

windows_version(failed, output, ub) ==
    IF env.win # "" THEN VersionResult("return", env.win, FALSE)
    ELSE IF ~on_win THEN VersionResult("return", "", FALSE)
    ELSE IF failed THEN VersionResult("return", "", TRUE)
    ELSE ParsedVerOutput[output, ub]

macos_version(failed, output) ==
    IF env.osx # "" THEN VersionResult("return", env.osx, FALSE)
    ELSE IF ~on_mac THEN VersionResult("return", "", FALSE)
    ELSE IF failed THEN VersionResult("return", "", TRUE)
    ELSE VersionResult("return", strip(output), TRUE)

\* linux_regex_search over the inputs of the model, computed once.
ParsedUnameOutput == [o \in UnameOutputs |-> linux_regex_search(o)]

linux_version(failed, output) ==
    IF env.linux # "" THEN VersionResult("return", env.linux, FALSE)
    ELSE IF ~on_linux THEN VersionResult("return", "", FALSE)
    ELSE IF failed THEN VersionResult("return", "", TRUE)
    ELSE VersionResult("return", ParsedUnameOutput[output], TRUE)

\* A version function called by the caller: r is what it computed.
VersionCall(op, r, failed, output) ==
    /\ pc = "idle"
    /\ result' = Outcome(op, r.outcome, r.str, FALSE, 0)
    /\ effects' = (IF r.ran THEN <<"subprocess">> ELSE <<>>)
    /\ out' = (IF r.ran /\ ~failed THEN output ELSE "")
    /\ ec' = (r.ran /\ failed)
    /\ IdleElps /\ IdlePath /\ IdleChild
    /\ UNCHANGED <<fixedVars, consoleVars, posixVars, regVars, pc>>

WindowsVersion ==
    \E failed \in BOOLEAN, output \in VerOutputs, ub \in UBOutcomes :
        VersionCall("windows_version", windows_version(failed, output, ub),
                    failed, output)

MacosVersion ==
    \E failed \in BOOLEAN, output \in SwVersOutputs :
        VersionCall("macos_version", macos_version(failed, output),
                    failed, output)

LinuxVersion ==
    \E failed \in BOOLEAN, output \in UnameOutputs :
        VersionCall("linux_version", linux_version(failed, output),
                    failed, output)

(***************************************************************************)
(* get_self_exe_path()                                                     *)
(***************************************************************************)
\* GetModuleFileNameW(NULL, buf, nSize): 0 on failure, the path's length
\* when it fits with its terminating NUL, else nSize (truncated).
GetModuleFileNameW(ok, len, nSize) ==
    IF ~ok THEN 0 ELSE IF len < nSize THEN len ELSE nSize

\* Where the first NUL of the buffer is after that call (old when the call
\* failed and wrote nothing).
BufferAfter(ok, len, nSize, old) ==
    IF ~ok THEN old ELSE IF len < nSize THEN len ELSE nSize - 1

\* _NSGetExecutablePath(buf, &size): 0 when size holds the path and its
\* NUL, else -1 with size set to what is needed.
NSGetExecutablePath(len, bufsize) == IF len + 1 <= bufsize THEN 0 ELSE -1

Max(a, b) == IF a >= b THEN a ELSE b

\* The Windows variant up to its first query (lines 38-46).
get_self_exe_path_win(len, ok) ==
    LET sz == GetModuleFileNameW(ok, len, MAX_PATH)
    IN  /\ pathLen' = len
        /\ buffer_size' = MAX_PATH
        /\ buffer_capacity' = MAX_PATH
        /\ size' = sz
        /\ lastCap' = MAX_PATH
        /\ lastOK' = (ok /\ len < MAX_PATH)
        /\ buffer_len' = BufferAfter(ok, len, MAX_PATH, 0)
        /\ IF sz = 0
           THEN /\ result' = Throws("get_self_exe_path")
                /\ new_size' = 0
                /\ pc' = "idle"
           ELSE IF sz = MAX_PATH
           THEN /\ result' = NoResult
                /\ new_size' = sz
                /\ pc' = "gsep_loop"
           ELSE /\ result' = ReturnsPath("get_self_exe_path", buffer_len')
                /\ new_size' = 0
                /\ pc' = "idle"

\* The macOS variant up to its first query (lines 58-60).
get_self_exe_path_mac(len) ==
    LET rc == NSGetExecutablePath(len, PATH_MAX)
    IN  /\ pathLen' = len
        /\ buffer_size' = PATH_MAX
        /\ buffer_capacity' = PATH_MAX
        /\ size' = (IF rc = 0 THEN PATH_MAX ELSE len + 1)
        /\ lastCap' = PATH_MAX
        /\ lastOK' = (rc = 0)
        /\ buffer_len' = (IF rc = 0 THEN len ELSE 0)
        /\ new_size' = 0
        /\ IF rc = 0
           THEN /\ result' = ReturnsPath("get_self_exe_path", len)
                /\ pc' = "idle"
           ELSE /\ result' = NoResult
                /\ pc' = "gsep_mac_retry"

\* The other platforms: fs::read_symlink throws when the link cannot be read.
get_self_exe_path_proc(len, ok) ==
    /\ pathLen' = len
    /\ lastOK' = ok
    /\ result' = (IF ok THEN ReturnsPath("get_self_exe_path", len)
                  ELSE Throws("get_self_exe_path"))
    /\ pc' = "idle"
    /\ size' = 0 /\ new_size' = 0 /\ buffer_size' = 0
    /\ buffer_capacity' = 0 /\ buffer_len' = 0 /\ lastCap' = 0

GetSelfExePath ==
    /\ pc = "idle"
    /\ \E len \in PathLens, ok \in BOOLEAN :
          IF on_win THEN get_self_exe_path_win(len, ok)
          ELSE IF on_mac THEN get_self_exe_path_mac(len)
          ELSE get_self_exe_path_proc(len, ok)
    /\ effects' = <<>>
    /\ IdleVersion /\ IdleElps /\ IdleChild
    /\ UNCHANGED <<fixedVars, consoleVars, posixVars, regVars>>

\* One turn of the do-while loop (lines 48-53): reserve() grows the
\* capacity and leaves buffer.size(), which is what the query is given.
get_self_exe_path_loop(ok) ==
    LET grown == new_size * 2
        sz == GetModuleFileNameW(ok, pathLen, buffer_size)
    IN  /\ new_size' = grown
        /\ buffer_capacity' = Max(buffer_capacity, grown)
        /\ size' = sz
        /\ lastCap' = buffer_size
        /\ lastOK' = (ok /\ pathLen < buffer_size)
        /\ buffer_len' = BufferAfter(ok, pathLen, buffer_size, buffer_len)
        /\ IF grown = sz
           THEN /\ pc' = "gsep_loop"
                /\ result' = NoResult
           ELSE /\ pc' = "idle"
                /\ result' = ReturnsPath("get_self_exe_path", buffer_len')
        /\ UNCHANGED <<pathLen, buffer_size>>

GetSelfExePathLoop ==
    /\ pc = "gsep_loop"
    /\ \E ok \in BOOLEAN : get_self_exe_path_loop(ok)
    /\ UNCHANGED <<fixedVars, consoleVars, posixVars, regVars, effects,
                   versionVars, elpsVars, childVars>>

\* The second query of the macOS variant (lines 62-68).
get_self_exe_path_mac_retry ==
    LET rc == NSGetExecutablePath(pathLen, size)
    IN  /\ buffer_capacity' = Max(buffer_capacity, size)
        /\ lastCap' = size
        /\ lastOK' = (rc = 0)
        /\ buffer_len' = (IF rc = 0 THEN pathLen ELSE buffer_len)
        /\ result' = (IF rc = 0 THEN Throws("get_self_exe_path")
                      ELSE ReturnsPath("get_self_exe_path", buffer_len'))
        /\ pc' = "idle"
        /\ UNCHANGED <<pathLen, size, new_size, buffer_size>>

GetSelfExePathMacRetry ==
    /\ pc = "gsep_mac_retry"
    /\ get_self_exe_path_mac_retry
    /\ UNCHANGED <<fixedVars, consoleVars, posixVars, regVars, effects,
                   versionVars, elpsVars, childVars>>


(***************************************************************************)
(* run_as_admin(exe, args)                                                 *)
(***************************************************************************)
RegAddCommand == "reg.exe ADD LongPathsEnabled /d 1"
Commands == {RegAddCommand, "other.exe"}

\* Lines 90-109: ShellExecuteEx with the "runas" verb; launched is its result.
run_as_admin_launch(caller, command, launched) ==
    /\ launchOK' = launched
    /\ helper' = command
    /\ raaCaller' = caller
    /\ exitCode' = 0
    /\ childState' = (IF launched THEN "running" ELSE "none")
    /\ raaResult' = (IF launched THEN "none" ELSE "false")

RunAsAdmin ==
    /\ pc = "idle"
    /\ on_win
    /\ \E command \in Commands, launched \in BOOLEAN :
          /\ run_as_admin_launch("caller", command, launched)
          /\ pc' = (IF launched THEN "raa_wait" ELSE "idle")
          /\ result' = (IF launched THEN NoResult
                        ELSE ReturnsBool("run_as_admin", FALSE))
    /\ effects' = <<"ShellExecuteEx">>
    /\ IdleVersion /\ IdleElps /\ IdlePath
    /\ UNCHANGED <<fixedVars, consoleVars, posixVars, regVars>>

\* The elevated child runs to its end on its own; reg.exe ADD that exits
\* with 0 has written the value.
ChildExit ==
    /\ childState = "running"
    /\ \E code \in {0, 1} :
          /\ exitCode' = code
          /\ IF helper = RegAddCommand /\ code = 0
             THEN regKey' = TRUE /\ LongPathsEnabled' = {1}
             ELSE UNCHANGED regVars
    /\ childState' = "exited"
    /\ UNCHANGED <<fixedVars, consoleVars, posixVars, pc, result, effects,
                   versionVars, elpsVars, pathVars, helper, launchOK,
                   raaCaller, raaResult>>

\* WaitForSingleObject(hProcess, INFINITE) returns once the child has exited.
wait_is_over == childState = "exited"

\* run_as_admin returning true whatever the exit code.
run_as_admin_value_any_code == TRUE

\* Lines 112-121: the value returned after the wait.
run_as_admin_value == (exitCode = 0)

RunAsAdminWait ==
    /\ pc = "raa_wait"
    /\ wait_is_over
    /\ raaResult' = (IF run_as_admin_value THEN "true" ELSE "false")
    /\ IF raaCaller = "caller"
       THEN /\ result' = ReturnsBool("run_as_admin", run_as_admin_value)
            /\ pc' = "idle"
       ELSE IF run_as_admin_value
       THEN /\ result' = NoResult
            /\ pc' = "elps_reread"
       ELSE /\ result' = ReturnsBool("enable_long_paths_support", FALSE)
            /\ pc' = "idle"
    /\ UNCHANGED <<fixedVars, consoleVars, posixVars, regVars, effects,
                   versionVars, elpsVars, pathVars, childState, exitCode,
                   helper, launchOK, raaCaller>>

(***************************************************************************)
(* enable_long_paths_support(force)                                        *)
(***************************************************************************)
\* The version test without its comparison of the build number.
version_check_major_only(ver) ==
    LET splitted == split(ver, ".")
    IN  IF ~(Len(splitted) >= 3) THEN "too_old"
        ELSE IF stoull_throws(splitted[1]) THEN "throw"
        ELSE IF ~(stoull(splitted[1]) >= MinMajor) THEN "too_old"
        ELSE "ok"

\* Lines 128-130: "ok", "too_old", or "throw" when std::stoull meets a
\* component that does not start with a digit.  && evaluates left to right
\* and stops at the first false operand.
version_check(ver) ==
    LET splitted == split(ver, ".")
    IN  IF ~(Len(splitted) >= 3) THEN "too_old"
        ELSE IF stoull_throws(splitted[1]) THEN "throw"
        ELSE IF ~(stoull(splitted[1]) >= MinMajor) THEN "too_old"
        ELSE IF stoull_throws(splitted[3]) THEN "throw"
        ELSE IF ~(stoull(splitted[3]) >= MinBuild) THEN "too_old"
        ELSE "ok"

\* Lines 127-136.
enable_long_paths_support_entry(v) ==
    /\ effects' = (IF v.ran THEN <<"subprocess">> ELSE <<>>)
    /\ IF v.outcome = "crash"
       THEN /\ win_ver' = ""
            /\ result' = Crashes("enable_long_paths_support")
            /\ pc' = "idle"
       ELSE /\ win_ver' = v.str
            /\ LET check == version_check(v.str)
               IN  /\ result' =
                          (CASE check = "ok" -> NoResult
                             [] check = "throw" ->
                                   Throws("enable_long_paths_support")
                             [] check = "too_old" ->
                                   ReturnsBool("enable_long_paths_support", FALSE))
                   /\ pc' = (IF check = "ok" THEN "elps_read" ELSE "idle")

EnableLongPathsSupport ==
    /\ pc = "idle"
    /\ on_win
    /\ \E f \in BOOLEAN, failed \in BOOLEAN, output \in VerOutputs,
          ub \in UBOutcomes :
          /\ force' = f
          /\ enable_long_paths_support_entry(windows_version(failed, output, ub))
    /\ prev_value' = {}
    /\ IdleVersion /\ IdlePath /\ IdleChild
    /\ UNCHANGED <<fixedVars, consoleVars, posixVars, regVars>>

\* Lines 138-181, up to the prompt.  key.Open stands outside the try block:
\* the RegException it throws when the key cannot be opened leaves the
\* function; the one GetDwordValue throws is caught.
enable_long_paths_support_read ==
    IF ~regKey
    THEN /\ effects' = Append(effects, "RegOpenKey failed")
         /\ result' = Throws("enable_long_paths_support")
         /\ pc' = "idle"
         /\ UNCHANGED prev_value
    ELSE IF LongPathsEnabled = {}
    THEN /\ effects' = effects \o <<"RegOpenKey", "RegGetValue failed">>
         /\ result' = ReturnsBool("enable_long_paths_support", FALSE)
         /\ pc' = "idle"
         /\ UNCHANGED prev_value
    ELSE /\ prev_value' = LongPathsEnabled
         /\ effects' =
               effects \o <<"RegOpenKey",
                            IF LongPathsEnabled = {1} THEN "RegGetValue 1"
                            ELSE "RegGetValue other">>
         /\ IF LongPathsEnabled = {1}
            THEN /\ result' = ReturnsBool("enable_long_paths_support", TRUE)
                 /\ pc' = "idle"
            ELSE /\ result' = NoResult
                 /\ pc' = (IF force \/ is_admin THEN "elps_write"
                           ELSE "elps_prompt")

EnableLongPathsSupportRead ==
    /\ pc = "elps_read"
    /\ enable_long_paths_support_read
    /\ UNCHANGED <<fixedVars, consoleVars, posixVars, regVars, versionVars,
                   force, win_ver, pathVars, childVars>>

\* Lines 161-163: the direct write; creating the key for writing or setting
\* the value throws RegException when access is denied.
enable_long_paths_support_write(granted) ==
    IF granted
    THEN /\ LongPathsEnabled' = {1}
         /\ effects' = Append(effects, "RegSetValue")
         /\ result' = NoResult
         /\ pc' = "elps_reread"
    ELSE /\ effects' = Append(effects, "RegSetValue failed")
         /\ result' = Throws("enable_long_paths_support")
         /\ pc' = "idle"
         /\ UNCHANGED LongPathsEnabled

EnableLongPathsSupportWrite ==
    /\ pc = "elps_write"
    /\ \E granted \in BOOLEAN : enable_long_paths_support_write(granted)
    /\ UNCHANGED <<fixedVars, consoleVars, posixVars, regKey, versionVars,
                   elpsVars, pathVars, childVars>>

\* Console::prompt(question, default): the answer given, or the default on
\* an empty line, is yes.
prompt(answer, default) ==
    (IF answer = "" THEN default ELSE answer) \in {"y", "Y"}

\* The prompt asked with "yes" as its default answer.
enable_long_paths_support_prompt_default_yes(answer, launched) ==
    IF prompt(answer, "y")
    THEN /\ effects' = effects \o <<"prompt:" \o answer, "ShellExecuteEx">>
         /\ run_as_admin_launch("elps", RegAddCommand, launched)
         /\ result' = (IF launched THEN NoResult
                       ELSE ReturnsBool("enable_long_paths_support", FALSE))
         /\ pc' = (IF launched THEN "raa_wait" ELSE "idle")
    ELSE /\ effects' = Append(effects, "prompt:" \o answer)
         /\ result' = ReturnsBool("enable_long_paths_support", FALSE)
         /\ pc' = "idle"
         /\ UNCHANGED childVars

\* Lines 167-180.
enable_long_paths_support_prompt(answer, launched) ==
    IF prompt(answer, "n")
    THEN /\ effects' = effects \o <<"prompt:" \o answer, "ShellExecuteEx">>
         /\ run_as_admin_launch("elps", RegAddCommand, launched)
         /\ result' = (IF launched THEN NoResult
                       ELSE ReturnsBool("enable_long_paths_support", FALSE))
         /\ pc' = (IF launched THEN "raa_wait" ELSE "idle")
    ELSE /\ effects' = Append(effects, "prompt:" \o answer)
         /\ result' = ReturnsBool("enable_long_paths_support", FALSE)
         /\ pc' = "idle"
         /\ UNCHANGED childVars

EnableLongPathsSupportPrompt ==
    /\ pc = "elps_prompt"
    /\ \E answer \in {"y", "n", ""}, launched \in BOOLEAN :
          enable_long_paths_support_prompt(answer, launched)
    /\ UNCHANGED <<fixedVars, consoleVars, posixVars, regVars, versionVars,
                   elpsVars, pathVars>>

\* Lines 183-191: the second GetDwordValue is outside any try block.
enable_long_paths_support_reread ==
    IF LongPathsEnabled = {}
    THEN /\ effects' = Append(effects, "RegGetValue failed")
         /\ result' = Throws("enable_long_paths_support")
         /\ UNCHANGED prev_value
    ELSE /\ prev_value' = LongPathsEnabled
         /\ effects' = Append(effects,
                              IF LongPathsEnabled = {1} THEN "RegGetValue 1"
                              ELSE "RegGetValue other")
         /\ result' = ReturnsBool("enable_long_paths_support",
                                  prev_value' = {1})

EnableLongPathsSupportReread ==
    /\ pc = "elps_reread"
    /\ enable_long_paths_support_reread
    /\ pc' = "idle"
    /\ UNCHANGED <<fixedVars, consoleVars, posixVars, regVars, versionVars,
                   force, win_ver, pathVars, childVars>>

(***************************************************************************)
(* The specification.                                                      *)
(***************************************************************************)
NextConsole ==
    \/ InitConsole
    \/ ResetConsole
    \/ ExternalCodepageChange

NextVersion ==
    \/ WindowsVersion
    \/ MacosVersion
    \/ LinuxVersion

NextPath ==
    \/ GetSelfExePath
    \/ GetSelfExePathLoop
    \/ GetSelfExePathMacRetry

NextPrivilege ==
    \/ IsAdmin
    \/ RunAsAdmin
    \/ ChildExit
    \/ RunAsAdminWait
    \/ EnableLongPathsSupport
    \/ EnableLongPathsSupportRead
    \/ EnableLongPathsSupportWrite
    \/ EnableLongPathsSupportPrompt
    \/ EnableLongPathsSupportReread

Next == NextConsole \/ NextVersion \/ NextPath \/ NextPrivilege

\* The whole subsystem, and each of its components driven on its own: no
\* component reads or writes the state of another, except that
\* enable_long_paths_support runs windows_version and run_as_admin itself.
Spec == Init /\ [][Next]_vars
SpecConsole == Init /\ [][NextConsole]_vars
SpecVersion == Init /\ [][NextVersion]_vars
SpecPath == Init /\ [][NextPath]_vars
SpecPrivilege == Init /\ [][NextPrivilege]_vars


(***************************************************************************)
(* Properties.                                                             *)
(***************************************************************************)
Has(e) == \E i \in 1..Len(effects) : effects[i] = e
Reads == {i \in 1..Len(effects) :
             effects[i] \in {"RegGetValue 1", "RegGetValue other",
                             "RegGetValue failed"}}
Writes == {i \in 1..Len(effects) :
              effects[i] \in {"RegSetValue", "RegSetValue failed"}}
Prompts == {i \in 1..Len(effects) :
               effects[i] \in {"prompt:y", "prompt:n", "prompt:"}}
Launches == {i \in 1..Len(effects) : effects[i] = "ShellExecuteEx"}
RegistryAccesses ==
    {i \in 1..Len(effects) : effects[i] \in {"RegOpenKey", "RegOpenKey failed"}}
        \cup Reads \cup Writes

\* enable_long_paths_support is running or was the most recent call.
InElps ==
    \/ pc \in {"elps_read", "elps_write", "elps_prompt", "elps_reread"}
    \/ pc = "raa_wait" /\ raaCaller = "elps"
    \/ result.op = "enable_long_paths_support"

ElpsReturned == pc = "idle" /\ result.op = "enable_long_paths_support"

\* C1: as long as init_console has never been called, a reset_console call
\* issues no codepage-setting call and leaves both console codepages as they
\* were right before it.
C1_ResetBeforeInitIsNoOp ==
    (result.op = "reset_console" /\ ~everInit) =>
        /\ effects = <<>>
        /\ consoleCP = before_reset[1]
        /\ consoleOutputCP = before_reset[2]

C1_Witness ==
    /\ on_win
    /\ result.op = "reset_console"
    /\ ~everInit
    /\ consoleCP = CP_UTF8
    /\ before_reset = <<CP_UTF8, CP_UTF8>>

\* C2: with no other codepage change in between, both codepages are UTF-8
\* from init_console until reset_console, and after reset_console they are
\* again what they were right before that init_console.
C2_ResetRestoresCaptured ==
    on_win =>
        /\ phase = "inited" =>
              consoleCP = CP_UTF8 /\ consoleOutputCP = CP_UTF8
        /\ phase = "restored" =>
              consoleCP = before_init[1] /\ consoleOutputCP = before_init[2]

C2_Witness ==
    /\ on_win
    /\ phase = "restored"
    /\ result.op = "reset_console"
    /\ before_init = <<850, 437>>
    /\ consoleCP = 850
    /\ consoleOutputCP = 437

\* A version component that is a number.
Numeric(tok) == tok # "" /\ AllIn(tok, 1, Len(tok), IsDigit)

\* The version string is below 10.0.14352: fewer than three components,
\* major below 10, or third component below 14352.
VersionBelow(ver) ==
    LET c == split(ver, ".")
    IN  \/ Len(c) < 3
        \/ Numeric(c[1]) /\ stoull(c[1]) < MinMajor
        \/ Numeric(c[1]) /\ Numeric(c[3]) /\ stoull(c[3]) < MinBuild

\* C3: when windows_version() reports a version below 10.0.14352,
\* enable_long_paths_support returns false, for either value of force, and
\* has opened, read and written nothing in the registry, prompted nobody and
\* launched no helper.
C3_OldVersionTouchesNothing ==
    (InElps /\ result.outcome # "crash" /\ VersionBelow(win_ver)) =>
        /\ ElpsReturned
        /\ result.outcome = "return"
        /\ ~result.flag
        /\ RegistryAccesses = {}
        /\ Prompts = {}
        /\ Launches = {}

C3_Witness ==
    /\ ElpsReturned
    /\ force
    /\ win_ver = "10.0.14351"
    /\ result.outcome = "return"
    /\ ~result.flag
    /\ regKey /\ LongPathsEnabled = {0}

\* C4: a version function whose override variable is set to a non-empty S
\* returns exactly S on every host OS and runs no subprocess.
C4_OverrideReturnedVerbatim ==
    /\ (result.op = "windows_version" /\ env.win # "") =>
          result.outcome = "return" /\ result.str = env.win /\ effects = <<>>
    /\ (result.op = "macos_version" /\ env.osx # "") =>
          result.outcome = "return" /\ result.str = env.osx /\ effects = <<>>
    /\ (result.op = "linux_version" /\ env.linux # "") =>
          result.outcome = "return" /\ result.str = env.linux /\ effects = <<>>

C4_Witness ==
    /\ on_linux
    /\ result.op = "windows_version"
    /\ env.win = "6.1"
    /\ result.str = "6.1"

\* C5: run_as_admin returns only once a launched child has exited, never
\* throws, and returns true exactly when the launch succeeded and the
\* child's exit code is zero.
C5_RunAsAdminValue ==
    /\ raaResult # "none" =>
          /\ (raaResult = "true") <=> (launchOK /\ exitCode = 0)
          /\ launchOK => childState = "exited"
    /\ result.op = "run_as_admin" =>
          /\ result.outcome = "return"
          /\ raaResult # "none"
          /\ result.flag <=> (raaResult = "true")

C5_Witness ==
    /\ result.op = "run_as_admin"
    /\ result.flag
    /\ launchOK
    /\ childState = "exited"
    /\ exitCode = 0

\* C6: the buffer-query variant of get_self_exe_path leaves its retry loop
\* only after a query that returned less than the capacity it was given, so
\* the path it returns is the whole path.
C6_NeverReturnsTruncatedPath ==
    (on_win /\ result.op = "get_self_exe_path" /\ result.outcome = "return"
        /\ size # 0) =>
        /\ size < lastCap
        /\ result.len = pathLen

\* C7: get_self_exe_path raises only if the OS cannot report the path: when
\* its latest query reported the whole path, it returns that path.
C7_RaisesOnlyWhenOSFails ==
    (result.op = "get_self_exe_path" /\ lastOK) =>
        /\ result.outcome = "return"
        /\ result.len = pathLen

\* C8: with the version precondition met, enable_long_paths_support returns
\* false, without an exception, a write, a prompt or a helper launch, when
\* the registry key cannot be opened or LongPathsEnabled cannot be read.
C8_UnreadableRegistryReturnsFalse ==
    (ElpsReturned /\ (Has("RegOpenKey failed")
                        \/ (Has("RegGetValue failed") /\ Cardinality(Reads) = 1))) =>
        /\ result.outcome = "return"
        /\ ~result.flag
        /\ Writes = {}
        /\ Prompts = {}
        /\ Launches = {}

\* The components of a build token that the claim joins: its first three,
\* or all of them when there are fewer.
RECURSIVE JoinDots(_)
JoinDots(els) ==
    IF Len(els) = 1 THEN els[1] ELSE els[1] \o "." \o JoinDots(Tail(els))

FirstThreeJoined(token) ==
    LET els == split(token, ".")
    IN  JoinDots(SubSeq(els, 1, IF Len(els) < 3 THEN Len(els) ELSE 3))

\* C9: windows_version, when it parses the output of "ver", returns the
\* first three dot-separated components of the bracketed build token of an
\* output that matches the banner pattern, and "0.0.0" for any other output.
C9_VerOutputParsing ==
    (result.op = "windows_version" /\ on_win /\ env.win = ""
        /\ effects = <<"subprocess">> /\ ~ec) =>
        /\ result.outcome = "return"
        /\ result.str =
              (IF ver_output_regex_match(strip(out))
               THEN FirstThreeJoined(ver_output_group3(strip(out)))
               ELSE "0.0.0")

\* C10: in enable_long_paths_support, (1) the registry is written directly
\* only if force or is_admin() holds, and then nobody is prompted; (2) the
\* elevated helper is launched only after the user answered yes, and an
\* empty answer counts as no; (3) after a decline or a failed helper the
\* function returns false having written nothing and read the value once;
\* (4) it returns true only if its latest read of LongPathsEnabled gave 1.
C10_WriteOrElevateDecision ==
    InElps =>
        /\ Writes # {} => ((force \/ is_admin) /\ Prompts = {})
        /\ Prompts # {} => ~(force \/ is_admin)
        /\ \A l \in Launches :
              l > 1 /\ effects[l - 1] = "prompt:y"
        /\ (Has("prompt:n") \/ Has("prompt:")) =>
              (ElpsReturned /\ Launches = {})
        /\ (ElpsReturned /\ (Has("prompt:n") \/ Has("prompt:")
                               \/ (Launches # {} /\ raaResult = "false"))) =>
              /\ result.outcome = "return"
              /\ ~result.flag
              /\ Writes = {}
              /\ Cardinality(Reads) = 1
        /\ (ElpsReturned /\ result.flag) =>
              /\ Reads # {}
              /\ \E r \in Reads :
                    /\ \A q \in Reads : q <= r
                    /\ effects[r] = "RegGetValue 1"

C10_Witness ==
    /\ ElpsReturned
    /\ result.flag
    /\ Has("prompt:y")
    /\ raaResult = "true"
    /\ ~force /\ ~is_admin
    /\ Cardinality(Reads) = 2


====
